---- MODULE Spec2Model ----
(***************************************************************************)
(* Model of download_student_files.py: the attachment-descriptor parser    *)
(* (extract_file_info_from_attachment), the bounded-retry downloader       *)
(* (download_file) and the per-file traversal (process_json_file, main).   *)
(*                                                                         *)
(* A Python str is a sequence of one-character strings.  The four Hangul   *)
(* syllables of the "no attachment" sentinel are written by code point     *)
(* ("U+CCA8" is one character, and so on).  Python's None is NoneVal, a    *)
(* value that no str equals.                                               *)
(***************************************************************************)
EXTENDS Integers, Sequences, FiniteSets, TLC

VARIABLES
    mode,               \* which entry point this behaviour runs
    attachment_string,  \* parser: the argument of extract_file_info_from_attachment
    parse_pc,           \* parser: "idle", "called" or "returned"
    parse_result,       \* parser: the returned triple (read when parse_pc = "returned")
    parse_copies,       \* parser: what the copies in the extraction scripts return
    pc,                 \* process_json_file / main: position in the traversal
    dl_pc,              \* download_file: position inside the call
    url,                \* download_file: argument url
    file_path,          \* download_file: argument file_path
    max_retries,        \* download_file: argument max_retries
    attempt,            \* download_file: loop variable of range(max_retries)
    written,            \* chunks written to the file download_file has opened
    result,             \* download_file: return value (read when dl_pc = "returned")
    log,                \* observable events of the current download_file call
    fs,                 \* the filesystem: existing path -> file state
    json_files,         \* main: the class names of sorted(json_files) still to process
    input_left,         \* how many members and assignments the input still holds
    student_name,       \* process_json_file: displayName of the current member
    i,                  \* process_json_file: enumerate index of the current assignment
    submitAttachments,  \* process_json_file: the current assignment's descriptor
    file_info,          \* process_json_file: (file_type, file_name, file_url)
    original_filename,  \* process_json_file: the filename before the collision loop
    clean_filename,     \* process_json_file: the filename being resolved
    counter,            \* process_json_file: collision counter
    tried,              \* the paths the collision loop tested, in order
    handed,             \* history: the path the previous download_file call was given
    slept,              \* history: tenths of a second process_json_file has slept
    student_files,      \* process_json_file: per-student count
    student_downloads,  \* process_json_file: per-student count
    download_stats,     \* process_json_file: per-file statistics
    total_stats,        \* main: global statistics
    version,            \* extraction: which script runs ("v2" or "v4")
    student_assignments,\* extraction: displayName -> the records appended so far
    member_entries,     \* history: member entries of the file that added a record
    csv_files,          \* extraction: class name -> data rows of the CSV written
    processing_results, \* extraction v4: one entry per processed file
    totals              \* extraction: the totals of the final summary

vars == <<mode, attachment_string, parse_pc, parse_result, pc, dl_pc, url, file_path,
          max_retries, attempt, written, result, log, fs, json_files,
          input_left, student_name, i, submitAttachments, file_info, original_filename, clean_filename,
          counter, tried, handed, slept, student_files,
          student_downloads, download_stats, total_stats, parse_copies,
          version, student_assignments, member_entries, csv_files,
          processing_results, totals>>

----------------------------------------------------------------------------
(* Bounds of the model *)

\* a generated descriptor is the concatenation of at most MaxPieces fragments
MaxPieces == 5

\* download_file is called with max_retries in 0..MaxRetries
MaxRetries == 4

\* a response body has at most MaxChunks chunks
MaxChunks == 1

\* main finds at most MaxFiles JSON files
MaxFiles == 1

\* the JSON files hold at most MaxMembers members in all
MaxMembers == 1

\* the JSON files hold at most MaxAssignments assignments in all
MaxAssignments == 2

\* the extraction scripts find at most MaxCsvFiles JSON files, which hold at
\* most MaxCsvMembers members and MaxCsvAssignments assignments in all
MaxCsvFiles == 2
MaxCsvMembers == 2
MaxCsvAssignments == 3

\* where both pipelines are checked together, the download pipeline's input
\* holds at most MaxRunMembers members and MaxRunAssignments assignments
MaxRunMembers == 1
MaxRunAssignments == 1

----------------------------------------------------------------------------
(* Python values and str methods *)

NoneVal == <<"None">>

Min(S) == CHOOSE x \in S : \A y \in S : x <= y
Max(S) == CHOOSE x \in S : \A y \in S : x >= y

\* the characters str.strip() removes (str.isspace) that the model uses
Whitespace == {" ", "\n", "\t", "\r"}

NL == <<"\n">>
SEP == <<" ", "|", " ">>
HTTPS == <<"h", "t", "t", "p", "s", ":", "/", "/">>
DASH == <<"-">>
NO_ATTACHMENT == <<"U+CCA8", "U+BD80", "U+C5C6", "U+C74C">>

\* the list ["U+CCA8 U+BD80 U+C5C6 U+C74C", "-"] both call sites test membership in
Sentinels == {NO_ATTACHMENT, DASH}

\* str.split(sep) for a non-empty sep: leftmost, non-overlapping occurrences
RECURSIVE split(_, _)
split(s, sep) ==
    LET n == Len(sep)
        hits == {k \in 1..(Len(s) - n + 1) : SubSeq(s, k, k + n - 1) = sep}
    IN  IF hits = {} THEN <<s>>
        ELSE LET k == Min(hits)
             IN  <<SubSeq(s, 1, k - 1)>> \o split(SubSeq(s, k + n, Len(s)), sep)

\* str.strip(): leading and trailing whitespace removed
strip(s) ==
    LET keep == {k \in 1..Len(s) : s[k] \notin Whitespace}
    IN  IF keep = {} THEN <<>> ELSE SubSeq(s, Min(keep), Max(keep))

\* str.startswith(prefix)
startswith(s, prefix) ==
    /\ Len(s) >= Len(prefix)
    /\ SubSeq(s, 1, Len(prefix)) = prefix

----------------------------------------------------------------------------
(* extract_file_info_from_attachment *)

Triple(t, n, u) == [file_type |-> t, file_name |-> n, file_url |-> u]

\* mutant: the sentinel list is not consulted
no_attachment_only_empty(s) == s = <<>>

\* the guard of the first return: `not attachment_string or attachment_string in [...]`
no_attachment(s) == s = <<>> \/ s \in Sentinels

\* len(parts) >= 3
has_three_parts(parts) == Len(parts) >= 3

\* mutant: the URL is returned with its later lines (as the older copies do)
clean_url_whole(file_url) == file_url

\* url_lines = file_url.split('\n'); clean_url = url_lines[0].strip()
clean_url(file_url) == strip(split(file_url, NL)[1])

\* mutant: file_type and file_name taken from each other's segment
pipe_branch_swapped(parts) ==
    [file_type |-> strip(parts[2]), file_name |-> strip(parts[1]),
     file_url |-> strip(split(strip(parts[3]), NL)[1])]

\* the branch taken when the split yields 3 or more parts
pipe_branch(parts) ==
    Triple(strip(parts[1]), strip(parts[2]), clean_url(strip(parts[3])))

\* the test applied to each stripped line of the fallback scan
is_url_line(line) == startswith(line, HTTPS)

\* mutant: the line is returned as it stands, not stripped
fallback_branch_raw(s) ==
    LET lines == split(s, NL)
        found == {k \in 1..Len(lines) : startswith(strip(lines[k]), HTTPS)}
    IN  IF found # {}
        THEN [file_type |-> NoneVal, file_name |-> s,
              file_url |-> lines[Min(found)]]
        ELSE [file_type |-> NoneVal, file_name |-> s, file_url |-> NoneVal]

\* the fallback branch: the first stripped line that starts with https://
fallback_branch(s) ==
    LET lines == split(s, NL)
        found == {k \in 1..Len(lines) : is_url_line(strip(lines[k]))}
    IN  IF found # {}
        THEN Triple(NoneVal, s, strip(lines[Min(found)]))
        ELSE Triple(NoneVal, s, NoneVal)

extract_file_info_from_attachment(s) ==
    IF no_attachment(s) THEN Triple(NoneVal, NoneVal, NoneVal)
    ELSE LET parts == split(s, SEP)
         IN  IF has_three_parts(parts) THEN pipe_branch(parts)
             ELSE fallback_branch(s)

----------------------------------------------------------------------------
(* The copies of extract_file_info_from_attachment in the extraction       *)
(* scripts: extract_student_assignment.py (v1), extract_student_assignment *)
(* _v2.py (v2) and extract_student_assignment_v4.py (v4)                   *)

\* v1: no newline handling and no fallback scan
extract_file_info_v1(s) ==
    IF s = <<>> \/ s \in {NO_ATTACHMENT, DASH}
    THEN Triple(NoneVal, NoneVal, NoneVal)
    ELSE LET parts == split(s, SEP)
         IN  IF Len(parts) >= 3
             THEN Triple(strip(parts[1]), strip(parts[2]), strip(parts[3]))
             ELSE Triple(NoneVal, s, NoneVal)

\* mutant: the file name is returned as it stands in the descriptor
extract_file_info_v2_raw_name(s) ==
    IF s = <<>> \/ s \in {NO_ATTACHMENT, DASH}
    THEN Triple(NoneVal, NoneVal, NoneVal)
    ELSE LET parts == split(s, SEP)
         IN  IF Len(parts) >= 3
             THEN Triple(strip(parts[1]), parts[2], strip(parts[3]))
             ELSE Triple(NoneVal, s, NoneVal)

\* v2: the same code as v1
extract_file_info_v2(s) ==
    IF s = <<>> \/ s \in {NO_ATTACHMENT, DASH}
    THEN Triple(NoneVal, NoneVal, NoneVal)
    ELSE LET parts == split(s, SEP)
         IN  IF Len(parts) >= 3
             THEN Triple(strip(parts[1]), strip(parts[2]), strip(parts[3]))
             ELSE Triple(NoneVal, s, NoneVal)

\* v4: the first line of the third part, and the fallback scan
extract_file_info_v4(s) ==
    IF s = <<>> \/ s \in {NO_ATTACHMENT, DASH}
    THEN Triple(NoneVal, NoneVal, NoneVal)
    ELSE LET parts == split(s, SEP)
         IN  IF Len(parts) >= 3
             THEN LET file_url == strip(parts[3])
                      url_lines == split(file_url, NL)
                  IN  Triple(strip(parts[1]), strip(parts[2]),
                             strip(url_lines[1]))
             ELSE LET lines == split(s, NL)
                      hits == {k \in 1..Len(lines) :
                                 startswith(strip(lines[k]), HTTPS)}
                  IN  IF hits = {} THEN Triple(NoneVal, s, NoneVal)
                      ELSE Triple(NoneVal, s, strip(lines[Min(hits)]))

NoCopies ==
    [copy \in {"v1", "v2", "v4"} |-> Triple(NoneVal, NoneVal, NoneVal)]

----------------------------------------------------------------------------
(* Filename resolution: sanitize_filename, the extension helpers and the   *)
(* parts of os.path and urllib.parse they call                             *)

\* invalid_chars = '<>:"/\|?*'
invalid_chars == {"<", ">", ":", "\"", "/", "\\", "|", "?", "*"}

\* the length sanitize_filename truncates to
SANITIZE_MAX_LEN == 200

sanitize_filename(filename) ==
    LET replaced == [k \in 1..Len(filename) |->
                        IF filename[k] \in invalid_chars THEN "_" ELSE filename[k]]
        cut == IF Len(replaced) > SANITIZE_MAX_LEN
               THEN SubSeq(replaced, 1, SANITIZE_MAX_LEN) ELSE replaced
    IN  strip(cut)

\* str.rfind of one character: the last position holding c, 0 when there is none
rfind(s, c) ==
    LET at == {k \in 1..Len(s) : s[k] = c}
    IN  IF at = {} THEN 0 ELSE Max(at)

\* the first position at or after from that holds a character of cs,
\* Len(s) + 1 when there is none
find_any(s, cs, from) ==
    LET at == {k \in from..Len(s) : s[k] \in cs}
    IN  IF at = {} THEN Len(s) + 1 ELSE Min(at)

\* os.path.splitext (posixpath): the extension starts at the last dot of the
\* last component, unless only dots precede it in that component
splitext(p) ==
    LET sepIndex == rfind(p, "/")
        dotIndex == rfind(p, ".")
        named == \E k \in (sepIndex + 1)..(dotIndex - 1) : p[k] # "."
    IN  IF dotIndex > sepIndex /\ named
        THEN <<SubSeq(p, 1, dotIndex - 1), SubSeq(p, dotIndex, Len(p))>>
        ELSE <<p, <<>>>>

\* urlparse(url).path for a URL that starts with "https://": what follows the
\* network location, up to the query or fragment, without the parameters of
\* its last segment
urlparse_path(u) ==
    LET rest == SubSeq(u, Len(HTTPS) + 1, Len(u))
        from == find_any(rest, {"/", "?", "#"}, 1)
        upto == find_any(rest, {"?", "#"}, 1)
        full == SubSeq(rest, from, upto - 1)
        semi == find_any(full, {";"}, Max({1, rfind(full, "/")}))
    IN  SubSeq(full, 1, semi - 1)

get_file_extension_from_url(u) ==
    LET path == urlparse_path(u)
    IN  IF rfind(path, ".") > 0 THEN splitext(path)[2] ELSE <<>>

\* type_mapping of get_file_extension_from_type, as (type, extension) pairs
type_mapping ==
    {<<<<"a", "p", "p", "l", "i", "c", "a", "t", "i", "o", "n", "/", "p", "d", "f">>,
       <<".", "p", "d", "f">>>>,
     <<<<"a", "p", "p", "l", "i", "c", "a", "t", "i", "o", "n", "/", "h", "a", "a", "n", "s", "o", "f", "t", "h", "w", "p">>,
       <<".", "h", "w", "p">>>>,
     <<<<"a", "p", "p", "l", "i", "c", "a", "t", "i", "o", "n", "/", "h", "a", "a", "n", "s", "o", "f", "t", "h", "w", "p", "x">>,
       <<".", "h", "w", "p", "x">>>>,
     <<<<"a", "p", "p", "l", "i", "c", "a", "t", "i", "o", "n", "/", "m", "s", "w", "o", "r", "d">>,
       <<".", "d", "o", "c">>>>,
     <<<<"a", "p", "p", "l", "i", "c", "a", "t", "i", "o", "n", "/", "v", "n", "d", ".", "o", "p", "e", "n", "x", "m", "l", "f", "o", "r", "m", "a", "t", "s", "-", "o", "f", "f", "i", "c", "e", "d", "o", "c", "u", "m", "e", "n", "t", ".", "w", "o", "r", "d", "p", "r", "o", "c", "e", "s", "s", "i", "n", "g", "m", "l", ".", "d", "o", "c", "u", "m", "e", "n", "t">>,
       <<".", "d", "o", "c", "x">>>>,
     <<<<"t", "e", "x", "t", "/", "p", "l", "a", "i", "n">>,
       <<".", "t", "x", "t">>>>,
     <<<<"i", "m", "a", "g", "e", "/", "j", "p", "e", "g">>,
       <<".", "j", "p", "g">>>>,
     <<<<"i", "m", "a", "g", "e", "/", "p", "n", "g">>,
       <<".", "p", "n", "g">>>>,
     <<<<"i", "m", "a", "g", "e", "/", "g", "i", "f">>,
       <<".", "g", "i", "f">>>>}

\* type_mapping.get(file_type, '')
get_file_extension_from_type(file_type) ==
    IF \E e \in type_mapping : e[1] = file_type
    THEN (CHOOSE e \in type_mapping : e[1] = file_type)[2]
    ELSE <<>>

\* str(n) for a natural number
RECURSIVE str(_)
str(n) ==
    LET digit == <<"0", "1", "2", "3", "4", "5", "6", "7", "8", "9">>[(n % 10) + 1]
    IN  IF n < 10 THEN <<digit>> ELSE Append(str(n \div 10), digit)

\* the default of member_info.get('displayName', ...)
NO_NAME ==
    <<"U+C774", "U+B984", "_", "U+C5C6", "U+C74C">>

\* the prefix of the filename given to an attachment without a name
ASSIGNMENT_PREFIX ==
    <<"U+ACFC", "U+C81C", "_">>

\* the suffix of the information file written beside a download
INFO_SUFFIX ==
    <<"_", "U+C815", "U+BCF4", ".", "t", "x", "t">>

----------------------------------------------------------------------------
(* The descriptors the parser is applied to *)

Fragments == {SEP, HTTPS, NL, <<" ">>, <<"a">>, <<"|">>, DASH, NO_ATTACHMENT}

RECURSIVE Flatten(_)
Flatten(ps) == IF ps = <<>> THEN <<>> ELSE Head(ps) \o Flatten(Tail(ps))

\* "pdf | hw1.pdf | https://x/y.pdf"
EX_PIPE ==
    <<"p", "d", "f">> \o SEP \o <<"h", "w", "1", ".", "p", "d", "f">> \o SEP
        \o HTTPS \o <<"x", "/", "y", ".", "p", "d", "f">>

\* "pdf | hw1.pdf | https://x/y.pdf\r\napplication/pdf": the export artefact, a
\* second line after the URL, here with a CR LF line ending
EX_PIPE_CRLF == EX_PIPE \o <<"\r", "\n", "a", "p", "p", "/", "p", "d", "f">>

\* "hw1.pdf\n  https://x/y.pdf \nhttps://z": no separators, the URLs on lines of
\* their own, the first one indented
EX_LINES ==
    <<"h", "w", "1", ".", "p", "d", "f", "\n", " ", " ">> \o HTTPS
        \o <<"x", "/", "y", ".", "p", "d", "f", " ", "\n">> \o HTTPS \o <<"z">>

Examples == {EX_PIPE, EX_PIPE_CRLF, EX_LINES}

Descriptors ==
    {Flatten(ps) : ps \in UNION {[1..n -> Fragments] : n \in 0..MaxPieces}}
        \cup Examples

----------------------------------------------------------------------------
(* The input of main: what the JSON files hold is read as the traversal    *)
(* reaches it, the values of submitAttachments taken from Attachments      *)

\* "application/pdf | report | https://x/r": the extension comes from the type
ATT_TYPED ==
    <<"a", "p", "p", "l", "i", "c", "a", "t", "i", "o", "n", "/", "p", "d",
      "f", " ", "|", " ", "r", "e", "p", "o", "r", "t", " ", "|", " ", "h",
      "t", "t", "p", "s", ":", "/", "/", "x", "/", "r">>

\* "pdf | report_1.pdf | https://x/v1": a name that looks like a numbered one
ATT_REPORT_1 ==
    <<"p", "d", "f", " ", "|", " ", "r", "e", "p", "o", "r", "t", "_", "1",
      ".", "p", "d", "f", " ", "|", " ", "h", "t", "t", "p", "s", ":", "/",
      "/", "x", "/", "v", "1">>

\* "https://x/report.pdf": no separators: the fallback scan finds the URL
ATT_URL_ONLY ==
    <<"h", "t", "t", "p", "s", ":", "/", "/", "x", "/", "r", "e", "p", "o",
      "r", "t", ".", "p", "d", "f">>

\* "pdf | report.pdf | http://x/report.pdf": a URL that is not https
ATT_HTTP ==
    <<"p", "d", "f", " ", "|", " ", "r", "e", "p", "o", "r", "t", ".", "p",
      "d", "f", " ", "|", " ", "h", "t", "t", "p", ":", "/", "/", "x", "/",
      "r", "e", "p", "o", "r", "t", ".", "p", "d", "f">>

\* "report.pdf": no URL at all
ATT_NAME_ONLY ==
    <<"r", "e", "p", "o", "r", "t", ".", "p", "d", "f">>

\* "text/plain | report | https://x/t": the name of ATT_TYPED, another type
ATT_TEXT ==
    <<"t", "e", "x", "t", "/", "p", "l", "a", "i", "n", " ", "|", " ", "r",
      "e", "p", "o", "r", "t", " ", "|", " ", "h", "t", "t", "p", "s", ":",
      "/", "/", "x", "/", "t">>

\* the strings submitAttachments takes that are no sentinel
Attachments ==
    {ATT_TYPED, ATT_TEXT, ATT_REPORT_1, ATT_URL_ONLY, ATT_HTTP, ATT_NAME_ONLY,
     <<>>}

KIM == <<"k", "i", "m">>

\* member_info.get('displayName', NO_NAME)
StudentNames == {KIM, NO_NAME}

REPORT_PDF == <<"r", "e", "p", "o", "r", "t", ".", "p", "d", "f">>

\* rawdata/c<k>.json, whose class_name is c<k>
class_name(k) == <<"c">> \o str(k)

----------------------------------------------------------------------------
(* Values of the variables an entry point does not use *)

NoStats ==
    [total_files |-> 0, successful_downloads |-> 0, failed_downloads |-> 0,
     students_processed |-> 0]

NoPath == <<NoneVal, NoneVal, NoneVal>>

NoTotals == [students |-> 0, submissions |-> 0, successes |-> 0]

\* no member entry of the file has added a record yet
NoEntries == [with_records |-> 0, current |-> FALSE]

ParserIdle ==
    /\ attachment_string = NoneVal
    /\ parse_pc = "idle"
    /\ parse_result = Triple(NoneVal, NoneVal, NoneVal)
    /\ parse_copies = NoCopies

FetchIdle ==
    /\ dl_pc = "idle"
    /\ url = NoneVal
    /\ max_retries = 0
    /\ attempt = 0
    /\ written = 0
    /\ result = FALSE
    /\ log = <<>>

TraversalIdle ==
    /\ pc = "idle"
    /\ json_files = <<>>
    /\ input_left = [members |-> 0, assignments |-> 0]
    /\ student_name = NoneVal
    /\ i = 0
    /\ submitAttachments = NoneVal
    /\ file_info = Triple(NoneVal, NoneVal, NoneVal)
    /\ original_filename = NoneVal
    /\ clean_filename = NoneVal
    /\ counter = 0
    /\ tried = <<>>
    /\ handed = NoPath
    /\ slept = 0
    /\ student_files = 0
    /\ student_downloads = 0
    /\ download_stats = NoStats
    /\ total_stats = NoStats

ExtractIdle ==
    /\ version = "none"
    /\ student_assignments = <<>>
    /\ member_entries = NoEntries
    /\ csv_files = <<>>
    /\ processing_results = <<>>
    /\ totals = NoTotals

parser_vars == <<attachment_string, parse_pc, parse_result, parse_copies>>

extract_vars == <<version, student_assignments, member_entries, csv_files,
                  processing_results, totals>>

fetch_vars == <<dl_pc, url, file_path, max_retries, attempt, written,
                result, log>>

traversal_vars == <<pc, json_files, input_left, student_name, i,
                    submitAttachments, file_info,
                    original_filename, clean_filename, counter, tried, handed, slept,
                    student_files,
                    student_downloads, download_stats, total_stats>>

\* what no step of download_file changes
outside_fetch == <<mode, parser_vars, traversal_vars, extract_vars>>

----------------------------------------------------------------------------
(* SpecParse: extract_file_info_from_attachment applied to one descriptor *)

InitParse ==
    /\ mode = "parse"
    /\ attachment_string \in Descriptors
    /\ parse_pc = "called"
    /\ parse_result = Triple(NoneVal, NoneVal, NoneVal)
    /\ parse_copies = NoCopies
    /\ FetchIdle
    /\ file_path = NoPath
    /\ TraversalIdle
    /\ ExtractIdle
    /\ fs = <<>>

Parse ==
    /\ mode = "parse"
    /\ parse_pc = "called"
    /\ parse_pc' = "returned"
    /\ parse_result' = extract_file_info_from_attachment(attachment_string)
    /\ parse_copies' = [v1 |-> extract_file_info_v1(attachment_string),
                        v2 |-> extract_file_info_v2(attachment_string),
                        v4 |-> extract_file_info_v4(attachment_string)]
    /\ UNCHANGED <<mode, attachment_string, fs>>
    /\ UNCHANGED fetch_vars
    /\ UNCHANGED traversal_vars
    /\ UNCHANGED extract_vars

SpecParse == InitParse /\ [][Parse]_vars

----------------------------------------------------------------------------
(* download_file(url, file_path, max_retries)                              *)
(*                                                                         *)
(* log holds the call's observable events in order: <<"get", attempt>> for *)
(* a requests.get, <<"RequestException", attempt>> and <<"Exception",      *)
(* attempt>> where one is raised, <<"sleep", seconds>> for a time.sleep    *)
(* and <<"done", attempt>> when the with-block has written the whole body. *)

DataFile(whole, source) ==
    [kind |-> "data", complete |-> whole, src |-> source]

Exists(path) == path \in DOMAIN fs

NumGets == Cardinality({k \in 1..Len(log) : log[k][1] = "get"})

\* mutant: one attempt too many
in_range_inclusive(a, n) == a <= n

\* `for attempt in range(max_retries)`: is there an iteration for a?
in_range(a, n) == a < n

\* mutant: the delays start at 2
backoff_from_two(a) == 2 ^ (a + 1)

\* time.sleep(2 ** attempt)
backoff(a) == 2 ^ a

\* `if attempt < max_retries - 1`
retry_follows(a, n) == a < n - 1

\* the head of the for loop: the next iteration, or the `return False`
\* after the loop
ForLoop ==
    /\ dl_pc = "for"
    /\ IF in_range(attempt, max_retries)
       THEN /\ dl_pc' = "get"
            /\ UNCHANGED result
       ELSE /\ dl_pc' = "returned"
            /\ result' = FALSE
    /\ UNCHANGED <<url, file_path, max_retries, attempt, written, log, fs>>
    /\ UNCHANGED outside_fetch

\* requests.get, raise_for_status and the content-length header: a response
\* to stream, a RequestException, or another exception
Get ==
    /\ dl_pc = "get"
    /\ \/ /\ dl_pc' = "open"
          /\ log' = Append(log, <<"get", attempt>>)
       \/ /\ dl_pc' = "except_request"
          /\ log' = log \o <<<<"get", attempt>>, <<"RequestException", attempt>>>>
       \/ /\ dl_pc' = "except_other"
          /\ log' = log \o <<<<"get", attempt>>, <<"Exception", attempt>>>>
    /\ UNCHANGED <<url, file_path, max_retries, attempt, written, result, fs>>
    /\ UNCHANGED outside_fetch

\* open(file_path, 'wb'): creates or truncates the file, or raises OSError
Open ==
    /\ dl_pc = "open"
    /\ \/ /\ fs' = (file_path :> DataFile(FALSE, url)) @@ fs
          /\ written' = 0
          /\ dl_pc' = "write"
          /\ UNCHANGED log
       \/ /\ dl_pc' = "except_other"
          /\ log' = Append(log, <<"Exception", attempt>>)
          /\ UNCHANGED <<fs, written>>
    /\ UNCHANGED <<url, file_path, max_retries, attempt, result>>
    /\ UNCHANGED outside_fetch

\* one round of `for chunk in response.iter_content(...)`: the next chunk is
\* written, or iter_content raises a RequestException, or f.write raises
\* OSError; in both failures the with-block closes the file as it is
WriteChunk ==
    /\ dl_pc = "write"
    /\ \/ /\ written < MaxChunks
          /\ written' = written + 1
          /\ fs' = (file_path :> DataFile(FALSE, url)) @@ fs
          /\ UNCHANGED <<dl_pc, log>>
       \/ /\ dl_pc' = "except_request"
          /\ log' = Append(log, <<"RequestException", attempt>>)
          /\ UNCHANGED <<written, fs>>
       \/ /\ dl_pc' = "except_other"
          /\ log' = Append(log, <<"Exception", attempt>>)
          /\ UNCHANGED <<written, fs>>
    /\ UNCHANGED <<url, file_path, max_retries, attempt, result>>
    /\ UNCHANGED outside_fetch

\* iter_content is exhausted: the file is closed and `return True`
Complete ==
    /\ dl_pc = "write"
    /\ fs' = (file_path :> DataFile(TRUE, url)) @@ fs
    /\ log' = Append(log, <<"done", attempt>>)
    /\ result' = TRUE
    /\ dl_pc' = "returned"
    /\ UNCHANGED <<url, file_path, max_retries, attempt, written>>
    /\ UNCHANGED outside_fetch

\* `except requests.exceptions.RequestException`: sleep unless this was the
\* last attempt, then the next iteration
ExceptRequest ==
    /\ dl_pc = "except_request"
    /\ log' = IF retry_follows(attempt, max_retries)
              THEN Append(log, <<"sleep", backoff(attempt)>>)
              ELSE log
    /\ attempt' = attempt + 1
    /\ dl_pc' = "for"
    /\ UNCHANGED <<url, file_path, max_retries, written, result, fs>>
    /\ UNCHANGED outside_fetch

\* mutant: the unexpected error is retried like a network error
ExceptOther_retry ==
    /\ dl_pc = "except_other"
    /\ attempt' = attempt + 1
    /\ dl_pc' = "for"
    /\ UNCHANGED <<url, file_path, max_retries, written, result, fs, log>>
    /\ UNCHANGED outside_fetch

\* `except Exception`: break, and the `return False` after the loop
ExceptOther ==
    /\ dl_pc = "except_other"
    /\ result' = FALSE
    /\ dl_pc' = "returned"
    /\ UNCHANGED <<url, file_path, max_retries, attempt, written, fs, log>>
    /\ UNCHANGED outside_fetch

----------------------------------------------------------------------------
(* SpecFetch: one call of download_file, for every max_retries up to       *)
(* MaxRetries, onto a path that is free or holds an older file             *)

FETCH_URL == HTTPS \o <<"x">>
FETCH_PATH == <<<<"c">>, <<"s">>, <<"f">>>>

InitFetch ==
    /\ mode = "fetch"
    /\ ParserIdle
    /\ TraversalIdle
    /\ ExtractIdle
    /\ dl_pc = "for"
    /\ url = FETCH_URL
    /\ file_path = FETCH_PATH
    /\ max_retries \in 0..MaxRetries
    /\ attempt = 0
    /\ written = 0
    /\ result = FALSE
    /\ log = <<>>
    /\ fs \in {<<>>, FETCH_PATH :> DataFile(TRUE, NoneVal)}

NextFetch ==
    \/ ForLoop
    \/ Get
    \/ Open
    \/ WriteChunk
    \/ Complete
    \/ ExceptRequest
    \/ ExceptOther

SpecFetch == InitFetch /\ [][NextFetch]_vars

----------------------------------------------------------------------------
(* main and process_json_file                                              *)

\* the default of download_file's max_retries
DEFAULT_MAX_RETRIES == 3

InfoFile(source) == [kind |-> "info", complete |-> TRUE, src |-> source]

\* `if not file_url or not file_url.startswith('https://')` is false
usable(info) ==
    /\ info.file_url # NoneVal
    /\ info.file_url # <<>>
    /\ startswith(info.file_url, HTTPS)

\* 'submitAttachments' is in the assignment and is no sentinel
submitted(a) == a # NoneVal /\ a \notin Sentinels

\* the filename before the collision loop: the sanitized file_name, or the
\* assignment's number, with an extension added when it has none
desired_filename(info, idx) ==
    LET base == IF info.file_name # NoneVal /\ info.file_name # <<>>
                THEN sanitize_filename(info.file_name)
                ELSE ASSIGNMENT_PREFIX \o str(idx + 1)
        by_type == get_file_extension_from_type(info.file_type)
        ext == IF by_type # <<>> THEN by_type
               ELSE get_file_extension_from_url(info.file_url)
    IN  IF splitext(base)[2] = <<>> THEN base \o ext ELSE base

\* mutant: the numbering starts one too high
numbered_filename_next(original, c) ==
    splitext(original)[1] \o <<"_">> \o str(c + 1) \o splitext(original)[2]

\* f"{name}_{counter}{ext}" with name, ext = os.path.splitext(original_filename)
numbered_filename(original, c) ==
    splitext(original)[1] \o <<"_">> \o str(c) \o splitext(original)[2]

\* os.path.join(student_folder, filename), student_folder being
\* class_folder/sanitize_filename(student_name)
path_in_student_folder(filename) ==
    <<Head(json_files), sanitize_filename(student_name), filename>>

\* mutant: the failed downloads are left out of the totals
accumulate_successes(total, file_stats) ==
    [key \in DOMAIN total |->
        total[key] + IF key \in DOMAIN file_stats /\ key # "failed_downloads"
                     THEN file_stats[key] ELSE 0]

\* `total_stats[key] += file_stats.get(key, 0)` for every key
accumulate(total, file_stats) ==
    [key \in DOMAIN total |->
        total[key] + IF key \in DOMAIN file_stats THEN file_stats[key] ELSE 0]

fetch_locals == <<dl_pc, url, max_retries, attempt, written, result, log>>

\* the call is over: download_file's locals are gone
FetchReturns ==
    /\ dl_pc' = "idle"
    /\ url' = NoneVal
    /\ max_retries' = 0
    /\ attempt' = 0
    /\ written' = 0
    /\ result' = FALSE
    /\ log' = <<>>

member_vars == <<student_name, i, student_files, student_downloads>>

assignment_vars ==
    <<submitAttachments, file_info, original_filename, clean_filename, counter,
      tried>>

\* the locals of one round of the assignment loop, before they are assigned
\* and once the round is over
NoAssignment ==
    /\ submitAttachments' = NoneVal
    /\ file_info' = Triple(NoneVal, NoneVal, NoneVal)
    /\ original_filename' = NoneVal
    /\ clean_filename' = NoneVal
    /\ counter' = 0
    /\ tried' = <<>>
    /\ file_path' = NoPath

\* the locals of one round of the member loop, likewise
NoMember ==
    /\ student_name' = NoneVal
    /\ i' = 0
    /\ student_files' = 0
    /\ student_downloads' = 0

\* main up to its loop: `if not json_files: return`, else the zeroed totals
MainStart ==
    /\ pc = "main"
    /\ pc' = IF json_files = <<>> THEN "done" ELSE "main_loop"
    /\ total_stats' = NoStats
    /\ UNCHANGED <<mode, parser_vars, extract_vars, fetch_locals, file_path, fs, json_files,
                   input_left, member_vars, assignment_vars,
                   handed, slept, download_stats>>

\* `for json_file in sorted(json_files)`: the next file, or the summary
MainLoop ==
    /\ pc = "main_loop"
    /\ pc' = IF json_files = <<>> THEN "done" ELSE "read_json"
    /\ UNCHANGED <<mode, parser_vars, extract_vars, fetch_locals, file_path, fs, json_files,
                   input_left, member_vars, assignment_vars,
                   handed, slept, download_stats, total_stats>>

\* open or json.load raises: process_json_file returns {} and main adds
\* file_stats.get(key, 0) to the totals
ReadJsonFails ==
    /\ pc = "read_json"
    /\ total_stats' = accumulate(total_stats, <<>>)
    /\ json_files' = Tail(json_files)
    /\ pc' = "main_loop"
    /\ UNCHANGED <<mode, parser_vars, extract_vars, fetch_locals, file_path, fs, input_left,
                   member_vars, assignment_vars, handed, slept,
                   download_stats>>

\* the file is read but holds no statsByMember list: the zeroed
\* download_stats is returned and accumulated
ReadJsonNoMembers ==
    /\ pc = "read_json"
    /\ total_stats' = accumulate(total_stats, NoStats)
    /\ json_files' = Tail(json_files)
    /\ pc' = "main_loop"
    /\ UNCHANGED <<mode, parser_vars, extract_vars, fetch_locals, file_path, fs, input_left,
                   member_vars, assignment_vars, handed, slept,
                   download_stats>>

\* the file is read and statsByMember is a list
ReadJson ==
    /\ pc = "read_json"
    /\ download_stats' = NoStats
    /\ pc' = "member_loop"
    /\ UNCHANGED <<mode, parser_vars, extract_vars, fetch_locals, file_path, fs, json_files,
                   input_left, member_vars, assignment_vars, handed, slept, total_stats>>

\* the member loop is over: `return download_stats`, accumulated by main
ReturnStats ==
    /\ pc = "member_loop"
    /\ total_stats' = accumulate(total_stats, download_stats)
    /\ download_stats' = NoStats
    /\ json_files' = Tail(json_files)
    /\ pc' = "main_loop"
    /\ UNCHANGED <<mode, parser_vars, extract_vars, fetch_locals, file_path, fs, input_left,
                   member_vars, assignment_vars, handed, slept>>

\* the next member has no 'member', or no assignments: `continue`
MemberSkipped ==
    /\ pc = "member_loop"
    /\ input_left.members > 0
    /\ input_left' = [input_left EXCEPT !.members = @ - 1]
    /\ UNCHANGED <<mode, parser_vars, extract_vars, fetch_locals, file_path, fs, json_files,
                   member_vars, assignment_vars, handed, slept,
                   download_stats, total_stats, pc>>

\* the next member has a name and assignments
MemberStart ==
    /\ pc = "member_loop"
    /\ input_left.members > 0
    /\ input_left.assignments > 0
    /\ input_left' = [input_left EXCEPT !.members = @ - 1]
    /\ \E name \in StudentNames : student_name' = name
    /\ i' = 0
    /\ student_files' = 0
    /\ student_downloads' = 0
    /\ pc' = "assignment_loop"
    /\ UNCHANGED <<mode, parser_vars, extract_vars, fetch_locals, file_path, fs, json_files,
                   assignment_vars, handed, slept, download_stats, total_stats>>

\* the assignment loop is over: the student counts if a file was attempted
StudentDone ==
    /\ pc = "assignment_loop"
    /\ i > 0
    /\ download_stats' =
            IF student_files > 0
            THEN [download_stats EXCEPT !.students_processed = @ + 1]
            ELSE download_stats
    /\ NoMember
    /\ pc' = "member_loop"
    /\ UNCHANGED <<mode, parser_vars, extract_vars, fetch_locals, file_path, fs, json_files,
                   input_left, assignment_vars, handed, slept, total_stats>>

\* `for i, assignment in enumerate(assignments)`: the next assignment, without
\* a submitAttachments (NoneVal) or with one of the values it takes
NextAssignment ==
    /\ pc = "assignment_loop"
    /\ input_left.assignments > 0
    /\ input_left' = [input_left EXCEPT !.assignments = @ - 1]
    /\ \E a \in {NoneVal} \cup Sentinels \cup Attachments :
        submitAttachments' = a
    /\ pc' = "assignment"
    /\ UNCHANGED <<mode, parser_vars, extract_vars, fetch_locals, file_path, fs, json_files,
                   member_vars, file_info, original_filename, clean_filename,
                   counter, tried, handed, slept, download_stats, total_stats>>

\* no submitAttachments, or a sentinel: nothing is done for the assignment
NoAttachment ==
    /\ pc = "assignment"
    /\ ~submitted(submitAttachments)
    /\ i' = i + 1
    /\ NoAssignment
    /\ pc' = "assignment_loop"
    /\ UNCHANGED <<mode, parser_vars, extract_vars, fetch_locals, fs, json_files, input_left,
                   student_name, student_files,
                   student_downloads, handed, slept, download_stats, total_stats>>

\* the parsed URL is missing or is not https: the warning is printed and the
\* loop continues
InvalidUrl ==
    /\ pc = "assignment"
    /\ submitted(submitAttachments)
    /\ ~usable(extract_file_info_from_attachment(submitAttachments))
    /\ i' = i + 1
    /\ NoAssignment
    /\ pc' = "assignment_loop"
    /\ UNCHANGED <<mode, parser_vars, extract_vars, fetch_locals, fs, json_files, input_left,
                   student_name, student_files,
                   student_downloads, handed, slept, download_stats, total_stats>>

\* the parsed URL is usable: the file is counted and its filename prepared
PrepareDownload ==
    /\ pc = "assignment"
    /\ submitted(submitAttachments)
    /\ LET info == extract_file_info_from_attachment(submitAttachments)
           filename == desired_filename(info, i)
       IN  /\ usable(info)
           /\ file_info' = info
           /\ original_filename' = filename
           /\ clean_filename' = filename
           /\ file_path' = path_in_student_folder(filename)
    /\ student_files' = student_files + 1
    /\ download_stats' = [download_stats EXCEPT !.total_files = @ + 1]
    /\ counter' = 1
    /\ tried' = <<>>
    /\ pc' = "resolve"
    /\ UNCHANGED <<mode, parser_vars, extract_vars, fetch_locals, fs, json_files, input_left,
                   student_name, i,
                   student_downloads, submitAttachments, handed, slept, total_stats>>

\* one round of `while os.path.exists(file_path)`
CollisionStep ==
    /\ pc = "resolve"
    /\ Exists(file_path)
    /\ clean_filename' = numbered_filename(original_filename, counter)
    /\ file_path' =
            path_in_student_folder(numbered_filename(original_filename, counter))
    /\ counter' = counter + 1
    /\ tried' = Append(tried, file_path)
    /\ UNCHANGED <<mode, parser_vars, extract_vars, fetch_locals, fs, json_files, input_left,
                   member_vars, submitAttachments, file_info,
                   original_filename, handed, slept, download_stats, total_stats, pc>>

\* the path is free: download_file(file_url, file_path) is called
CallDownload ==
    /\ pc = "resolve"
    /\ ~Exists(file_path)
    /\ handed' = file_path
    /\ url' = file_info.file_url
    /\ max_retries' = DEFAULT_MAX_RETRIES
    /\ attempt' = 0
    /\ written' = 0
    /\ result' = FALSE
    /\ log' = <<>>
    /\ dl_pc' = "for"
    /\ pc' = "download"
    /\ UNCHANGED <<mode, parser_vars, extract_vars, file_path, fs, json_files, input_left,
                   member_vars, assignment_vars, slept, download_stats,
                   total_stats>>

\* download_file returned True: the counts, and the information file
DownloadSucceeded ==
    /\ pc = "download"
    /\ dl_pc = "returned"
    /\ result
    /\ student_downloads' = student_downloads + 1
    /\ download_stats' = [download_stats EXCEPT !.successful_downloads = @ + 1]
    /\ fs' = (path_in_student_folder(splitext(clean_filename)[1] \o INFO_SUFFIX)
                :> InfoFile(file_info.file_url)) @@ fs
    /\ FetchReturns
    /\ pc' = "pace"
    /\ UNCHANGED <<mode, parser_vars, extract_vars, file_path, json_files, input_left,
                   student_name, i,
                   student_files, assignment_vars, handed, slept, total_stats>>

\* mutant: the loop goes on at once after a failure
DownloadFailed_unpaced ==
    /\ pc = "download"
    /\ dl_pc = "returned"
    /\ ~result
    /\ download_stats' = [download_stats EXCEPT !.failed_downloads = @ + 1]
    /\ FetchReturns
    /\ i' = i + 1
    /\ NoAssignment
    /\ pc' = "assignment_loop"
    /\ UNCHANGED <<mode, parser_vars, extract_vars, fs, json_files,
                   input_left, student_name, student_files,
                   student_downloads, handed, slept, total_stats>>

\* download_file returned False: the failure is counted
DownloadFailed ==
    /\ pc = "download"
    /\ dl_pc = "returned"
    /\ ~result
    /\ download_stats' = [download_stats EXCEPT !.failed_downloads = @ + 1]
    /\ FetchReturns
    /\ pc' = "pace"
    /\ UNCHANGED <<mode, parser_vars, extract_vars, file_path, fs, json_files, input_left,
                   member_vars, assignment_vars, handed, slept,
                   total_stats>>

\* the argument of time.sleep(0.5), in tenths of a second
PACING_DELAY == 5

\* time.sleep(0.5), and the round of the assignment loop is over
Pace ==
    /\ pc = "pace"
    /\ slept' = slept + PACING_DELAY
    /\ i' = i + 1
    /\ NoAssignment
    /\ pc' = "assignment_loop"
    /\ UNCHANGED <<mode, parser_vars, extract_vars, fetch_locals, fs, json_files, input_left,
                   student_name, student_files,
                   student_downloads, handed, download_stats, total_stats>>

----------------------------------------------------------------------------
(* Spec: main over at most MaxFiles JSON files holding at most MaxMembers  *)
(* members and MaxAssignments assignments in all; the downloads folder is  *)
(* empty or holds report.pdf from an earlier run                           *)

EARLIER_REPORT == <<class_name(1), KIM, REPORT_PDF>>

\* main is started on `files` JSON files at most, which hold at most
\* `members` members and `assignments` assignments in all
MainStarted(files, members, assignments) ==
    /\ mode = "main"
    /\ ParserIdle
    /\ ExtractIdle
    /\ FetchIdle
    /\ file_path = NoPath
    /\ pc = "main"
    /\ \E n \in 0..files : json_files = [k \in 1..n |-> class_name(k)]
    /\ input_left = [members |-> members, assignments |-> assignments]
    /\ student_name = NoneVal
    /\ i = 0
    /\ submitAttachments = NoneVal
    /\ file_info = Triple(NoneVal, NoneVal, NoneVal)
    /\ original_filename = NoneVal
    /\ clean_filename = NoneVal
    /\ counter = 0
    /\ tried = <<>>
    /\ handed = NoPath
    /\ slept = 0
    /\ student_files = 0
    /\ student_downloads = 0
    /\ download_stats = NoStats
    /\ total_stats = NoStats
    /\ fs \in {<<>>, EARLIER_REPORT :> DataFile(TRUE, NoneVal)}

Init == MainStarted(MaxFiles, MaxMembers, MaxAssignments)

Next ==
    \/ MainStart
    \/ MainLoop
    \/ ReadJsonFails
    \/ ReadJsonNoMembers
    \/ ReadJson
    \/ ReturnStats
    \/ MemberSkipped
    \/ MemberStart
    \/ StudentDone
    \/ NextAssignment
    \/ NoAttachment
    \/ InvalidUrl
    \/ PrepareDownload
    \/ CollisionStep
    \/ CallDownload
    \/ ForLoop
    \/ Get
    \/ Open
    \/ WriteChunk
    \/ Complete
    \/ ExceptRequest
    \/ ExceptOther
    \/ DownloadSucceeded
    \/ DownloadFailed
    \/ Pace

Spec == Init /\ [][Next]_vars

----------------------------------------------------------------------------
(* The extraction scripts: main of extract_student_assignment_v2.py and of *)
(* extract_student_assignment_v4.py, with extract_student_assignments_from *)
(* _json and create_csv_file, which the scripts share line for line        *)

LEE == <<"l", "e", "e">>

\* the default of member_info.get('displayName', ...) in the extraction scripts
NO_NAME_SPACED == <<"U+C774", "U+B984", " ", "U+C5C6", "U+C74C">>

CsvStudentNames == {KIM, LEE, NO_NAME_SPACED}

\* the values of submitAttachments that are no sentinel
CsvAttachments == {ATT_TYPED, <<>>}

\* ord(c) for the characters of the names
code_point ==
    [c \in {" ", "e", "i", "k", "l", "m", "U+B984", "U+C5C6", "U+C74C",
            "U+C774"} |->
        CASE c = " " -> 32
          [] c = "e" -> 101
          [] c = "i" -> 105
          [] c = "k" -> 107
          [] c = "l" -> 108
          [] c = "m" -> 109
          [] c = "U+B984" -> 47492
          [] c = "U+C5C6" -> 50630
          [] c = "U+C74C" -> 51020
          [] c = "U+C774" -> 51060]

\* a < b for two str: the first differing character decides, a proper prefix
\* is smaller
RECURSIVE str_less(_, _)
str_less(a, b) ==
    IF b = <<>> THEN FALSE
    ELSE IF a = <<>> THEN TRUE
    ELSE IF Head(a) # Head(b) THEN code_point[Head(a)] < code_point[Head(b)]
    ELSE str_less(Tail(a), Tail(b))

\* sorted(keys)
RECURSIVE sorted(_)
sorted(keys) ==
    IF keys = {} THEN <<>>
    ELSE LET least == CHOOSE k \in keys :
                        \A other \in keys \ {k} : str_less(k, other)
         IN  <<least>> \o sorted(keys \ {least})

\* mutant: only "-" is taken for a sentinel
has_attachment_dash_only(a) == a # NoneVal /\ a # DASH

\* `'submitAttachments' in assignment and assignment['submitAttachments']
\* not in [...]`
has_attachment(a) == a # NoneVal /\ a \notin Sentinels

\* what an assignment of the input holds as submitAttachments (NoneVal: the
\* key is missing)
CsvInputs == {NoneVal} \cup Sentinels \cup CsvAttachments

\* the copy of extract_file_info_from_attachment the running script holds
extract_file_info(v, s) ==
    IF v = "v2" THEN extract_file_info_v2(s) ELSE extract_file_info_v4(s)

\* assignment_info: 'subject' stands for the fields copied from the
\* assignment (here its position in the file), the rest is the parsed triple
assignment_info(subject, info) ==
    [subject |-> subject, file_type |-> info.file_type,
     file_name |-> info.file_name, file_url |-> info.file_url]

\* student_assignments[student_name].append(assignment_info) on a
\* defaultdict(list)
append_record(sa, name, rec) ==
    IF name \in DOMAIN sa
    THEN [sa EXCEPT ![name] = Append(@, rec)]
    ELSE (name :> <<rec>>) @@ sa

\* the rows writer.writerow has written for one student
rows_of(name, records) ==
    [k \in 1..Len(records) |->
        [student |-> name, subject |-> records[k].subject,
         file_type |-> records[k].file_type,
         file_name |-> records[k].file_name,
         file_url |-> records[k].file_url]]

RECURSIVE rows_in_order(_, _)
rows_in_order(names, sa) ==
    IF names = <<>> THEN <<>>
    ELSE rows_of(Head(names), sa[Head(names)])
            \o rows_in_order(Tail(names), sa)

\* mutant: the students are written in descending order
RECURSIVE in_any_order(_)
in_any_order(keys) ==
    IF keys = {} THEN <<>>
    ELSE LET last == CHOOSE k \in keys :
                        \A other \in keys \ {k} : str_less(other, k)
         IN  <<last>> \o in_any_order(keys \ {last})

\* the order create_csv_file writes the students in
csv_order(keys) == sorted(keys)

\* create_csv_file: the data rows under the header
create_csv_file(sa) == rows_in_order(csv_order(DOMAIN sa), sa)

\* len(student_assignments)
students_count(sa) == Cardinality(DOMAIN sa)

RECURSIVE sum_len(_, _)
sum_len(names, sa) ==
    IF names = {} THEN 0
    ELSE LET n == CHOOSE k \in names : TRUE
         IN  Len(sa[n]) + sum_len(names \ {n}, sa)

\* sum(len(assignments) for assignments in student_assignments.values())
submissions_count(sa) == sum_len(DOMAIN sa, sa)

RECURSIVE sum_field(_, _)
sum_field(results, field) ==
    IF results = <<>> THEN 0
    ELSE Head(results)[field] + sum_field(Tail(results), field)

\* what the loop over the files leaves alone
extract_frame ==
    <<mode, parser_vars, fetch_vars, fs, file_info, original_filename,
      clean_filename, counter, tried, handed, slept, student_files,
      student_downloads, download_stats, total_stats, version>>

\* v4's summary after the loop; v2 has kept its totals while looping
summary(v, results, running) ==
    IF v = "v4"
    THEN [students |-> sum_field(results, "students"),
          submissions |-> sum_field(results, "submissions"),
          successes |-> sum_field(results, "success")]
    ELSE running

\* main up to and through the head of `for json_file in sorted(json_files)`:
\* the next file, or the summary when there is none
ExtractMainLoop ==
    /\ pc = "x_file_loop"
    /\ IF json_files = <<>>
       THEN /\ pc' = "done"
            /\ totals' = summary(version, processing_results, totals)
       ELSE /\ pc' = "x_open"
            /\ UNCHANGED totals
    /\ UNCHANGED <<extract_frame, json_files, input_left, student_name, i,
                   submitAttachments, student_assignments, member_entries,
                   csv_files, processing_results>>

\* mutant: the file that raised is entered as one student with one submission
file_failed_counted(v, results) ==
    Append(results, [filename |-> Head(json_files), students |-> 1,
                     submissions |-> 1, success |-> 0, status |-> "error"])

\* what the caller does with a file that raised: v4 appends an error entry
\* with zero counts, v2's process_single_json_file returns (0, 0) and main
\* adds nothing
file_failed(v, results) ==
    IF v = "v4"
    THEN Append(results, [filename |-> Head(json_files), students |-> 0,
                          submissions |-> 0, success |-> 0,
                          status |-> "error"])
    ELSE results

\* open or json.load raises in extract_student_assignments_from_json: the
\* caller's `except Exception` takes over and the loop goes on
ExtractJsonFails ==
    /\ pc = "x_open"
    /\ processing_results' = file_failed(version, processing_results)
    /\ json_files' = Tail(json_files)
    /\ pc' = "x_file_loop"
    /\ UNCHANGED <<extract_frame, input_left, student_name, i,
                   submitAttachments, student_assignments, member_entries,
                   csv_files, totals>>

\* the file is read: student_assignments = defaultdict(list)
ExtractJsonRead ==
    /\ pc = "x_open"
    /\ student_assignments' = <<>>
    /\ member_entries' = NoEntries
    /\ i' = 0
    /\ pc' = "x_member_loop"
    /\ UNCHANGED <<extract_frame, json_files, input_left, student_name,
                   submitAttachments, csv_files, processing_results, totals>>

\* the next member has no 'member', or no assignments: `continue`
ExtractMemberSkipped ==
    /\ pc = "x_member_loop"
    /\ input_left.members > 0
    /\ input_left' = [input_left EXCEPT !.members = @ - 1]
    /\ UNCHANGED <<extract_frame, pc, json_files, student_name, i,
                   submitAttachments, student_assignments, member_entries,
                   csv_files, processing_results, totals>>

\* the next member has a displayName (or the default) and assignments
ExtractMemberStart ==
    /\ pc = "x_member_loop"
    /\ input_left.members > 0
    /\ input_left.assignments > 0
    /\ input_left' = [input_left EXCEPT !.members = @ - 1]
    /\ \E name \in CsvStudentNames : student_name' = name
    /\ member_entries' = [member_entries EXCEPT !.current = FALSE]
    /\ pc' = "x_assignment_loop"
    /\ UNCHANGED <<extract_frame, json_files, i, submitAttachments,
                   student_assignments, csv_files, processing_results,
                   totals>>

\* the next assignment has no submitAttachments, or a sentinel: no record
ExtractNoAttachment ==
    /\ pc = "x_assignment_loop"
    /\ input_left.assignments > 0
    /\ input_left' = [input_left EXCEPT !.assignments = @ - 1]
    /\ \E a \in CsvInputs :
        /\ ~has_attachment(a)
        /\ submitAttachments' = a
    /\ i' = i + 1
    /\ UNCHANGED <<extract_frame, pc, json_files, student_name,
                   student_assignments, member_entries, csv_files,
                   processing_results, totals>>

\* the next assignment has a submitAttachments that is no sentinel: it is
\* parsed and the record appended to the student's list
ExtractRecord ==
    /\ pc = "x_assignment_loop"
    /\ input_left.assignments > 0
    /\ input_left' = [input_left EXCEPT !.assignments = @ - 1]
    /\ \E a \in CsvInputs :
        /\ has_attachment(a)
        /\ submitAttachments' = a
        /\ student_assignments' =
                append_record(student_assignments, student_name,
                              assignment_info(i, extract_file_info(version, a)))
    /\ member_entries' =
            [with_records |-> IF member_entries.current
                              THEN member_entries.with_records
                              ELSE member_entries.with_records + 1,
             current |-> TRUE]
    /\ i' = i + 1
    /\ UNCHANGED <<extract_frame, pc, json_files, student_name, csv_files,
                   processing_results, totals>>

\* the member's assignments are exhausted
ExtractMemberDone ==
    /\ pc = "x_assignment_loop"
    /\ student_name' = NoneVal
    /\ submitAttachments' = NoneVal
    /\ pc' = "x_member_loop"
    /\ UNCHANGED <<extract_frame, json_files, input_left, i,
                   student_assignments, member_entries, csv_files,
                   processing_results, totals>>

\* what the caller records for a file that was processed: v4 appends an
\* entry, v2's main adds to its totals when students_count > 0
file_done(v, results, sa) ==
    IF v = "v4"
    THEN Append(results,
                [filename |-> Head(json_files),
                 students |-> students_count(sa),
                 submissions |-> submissions_count(sa),
                 success |-> IF sa # <<>> THEN 1 ELSE 0,
                 status |-> IF sa # <<>> THEN "success" ELSE "no data"])
    ELSE results

running_totals(v, running, sa) ==
    IF v = "v2" /\ students_count(sa) > 0
    THEN [students |-> running.students + students_count(sa),
          submissions |-> running.submissions + submissions_count(sa),
          successes |-> running.successes + 1]
    ELSE running

\* `return student_assignments`, then the caller: the counts, the CSV when
\* there is a record, and the file's entry
ExtractFileDone ==
    /\ pc = "x_member_loop"
    /\ csv_files' = IF student_assignments # <<>>
                    THEN (Head(json_files) :>
                            create_csv_file(student_assignments)) @@ csv_files
                    ELSE csv_files
    /\ processing_results' =
            file_done(version, processing_results, student_assignments)
    /\ totals' = running_totals(version, totals, student_assignments)
    /\ json_files' = Tail(json_files)
    /\ pc' = "x_file_loop"
    /\ UNCHANGED <<extract_frame, input_left, student_name, i,
                   submitAttachments, student_assignments, member_entries>>

\* create_csv_file raises on open: the caller's `except Exception`
ExtractCsvFails ==
    /\ pc = "x_member_loop"
    /\ student_assignments # <<>>
    /\ processing_results' = file_failed(version, processing_results)
    /\ json_files' = Tail(json_files)
    /\ pc' = "x_file_loop"
    /\ UNCHANGED <<extract_frame, input_left, student_name, i,
                   submitAttachments, student_assignments, member_entries,
                   csv_files, totals>>

InitExtract ==
    /\ mode = "extract"
    /\ ParserIdle
    /\ FetchIdle
    /\ file_path = NoPath
    /\ fs = <<>>
    /\ version \in {"v2", "v4"}
    /\ pc = "x_file_loop"
    /\ \E n \in 0..MaxCsvFiles : json_files = [k \in 1..n |-> class_name(k)]
    /\ input_left = [members |-> MaxCsvMembers,
                     assignments |-> MaxCsvAssignments]
    /\ student_name = NoneVal
    /\ i = 0
    /\ submitAttachments = NoneVal
    /\ file_info = Triple(NoneVal, NoneVal, NoneVal)
    /\ original_filename = NoneVal
    /\ clean_filename = NoneVal
    /\ counter = 0
    /\ tried = <<>>
    /\ handed = NoPath
    /\ slept = 0
    /\ student_files = 0
    /\ student_downloads = 0
    /\ download_stats = NoStats
    /\ total_stats = NoStats
    /\ student_assignments = <<>>
    /\ member_entries = NoEntries
    /\ csv_files = <<>>
    /\ processing_results = <<>>
    /\ totals = NoTotals

NextExtract ==
    \/ ExtractMainLoop
    \/ ExtractJsonFails
    \/ ExtractJsonRead
    \/ ExtractMemberSkipped
    \/ ExtractMemberStart
    \/ ExtractNoAttachment
    \/ ExtractRecord
    \/ ExtractMemberDone
    \/ ExtractFileDone
    \/ ExtractCsvFails

SpecExtract == InitExtract /\ [][NextExtract]_vars

----------------------------------------------------------------------------
(* SpecPipelines: either pipeline runs, the download pipeline on an input  *)
(* of at most MaxCsvFiles files, MaxRunMembers members and                 *)
(* MaxRunAssignments assignments                                           *)

InitPipelines ==
    \/ MainStarted(MaxCsvFiles, MaxRunMembers, MaxRunAssignments)
    \/ InitExtract

NextPipelines ==
    \/ MainStart
    \/ MainLoop
    \/ ReadJsonFails
    \/ ReadJsonNoMembers
    \/ ReadJson
    \/ ReturnStats
    \/ MemberSkipped
    \/ MemberStart
    \/ StudentDone
    \/ NextAssignment
    \/ NoAttachment
    \/ InvalidUrl
    \/ PrepareDownload
    \/ CollisionStep
    \/ CallDownload
    \/ ForLoop
    \/ Get
    \/ Open
    \/ WriteChunk
    \/ Complete
    \/ ExceptRequest
    \/ ExceptOther
    \/ DownloadSucceeded
    \/ DownloadFailed
    \/ Pace
    \/ ExtractMainLoop
    \/ ExtractJsonFails
    \/ ExtractJsonRead
    \/ ExtractMemberSkipped
    \/ ExtractMemberStart
    \/ ExtractNoAttachment
    \/ ExtractRecord
    \/ ExtractMemberDone
    \/ ExtractFileDone
    \/ ExtractCsvFails

SpecPipelines == InitPipelines /\ [][NextPipelines]_vars

----------------------------------------------------------------------------
(* The parser's contract, stated on the characters of the descriptor and   *)
(* not through split and strip                                             *)

\* the positions where the literal " | " starts
SepAt(s) ==
    {k \in 1..(Len(s) - 2) : s[k] = " " /\ s[k + 1] = "|" /\ s[k + 2] = " "}

\* the first separator at or after position from, Len(s) + 1 when there is none
Cut(s, from) ==
    LET c == {k \in SepAt(s) : k >= from}
    IN  IF c = {} THEN Len(s) + 1 ELSE Min(c)

Cut1(s) == Cut(s, 1)
Cut2(s) == Cut(s, Cut1(s) + 3)
Cut3(s) == Cut(s, Cut2(s) + 3)

ThreeOrMoreSegments(s) == Cut2(s) <= Len(s)
Segment1(s) == SubSeq(s, 1, Cut1(s) - 1)
Segment2(s) == SubSeq(s, Cut1(s) + 3, Cut2(s) - 1)
Segment3(s) == SubSeq(s, Cut2(s) + 3, Cut3(s) - 1)

RECURSIVE DropBlank(_)
DropBlank(x) ==
    IF x # <<>> /\ Head(x) \in Whitespace THEN DropBlank(Tail(x)) ELSE x

Reverse(x) == [k \in 1..Len(x) |-> x[Len(x) + 1 - k]]

\* x without its leading and trailing whitespace
Trimmed(x) == Reverse(DropBlank(Reverse(DropBlank(x))))

NewlineAt(x) == {k \in 1..Len(x) : x[k] = "\n"}
NumLines(x) == Cardinality(NewlineAt(x)) + 1

\* the position of the j-th newline; 0 for j = 0, Len(x) + 1 past the last one
NewlinePos(x, j) ==
    IF j = 0 THEN 0
    ELSE IF j > Cardinality(NewlineAt(x)) THEN Len(x) + 1
    ELSE CHOOSE k \in NewlineAt(x) :
            Cardinality({m \in NewlineAt(x) : m <= k}) = j

\* the j-th line of x, the newlines not included
Line(x, j) == SubSeq(x, NewlinePos(x, j - 1) + 1, NewlinePos(x, j) - 1)

HasPrefix(x, p) == Len(x) >= Len(p) /\ \A k \in 1..Len(p) : x[k] = p[k]

IsPartOf(u, x) ==
    u = <<>> \/ \E a \in 1..Len(x) : \E b \in a..Len(x) : u = SubSeq(x, a, b)

NotSentinel(s) == s # <<>> /\ s # NO_ATTACHMENT /\ s # DASH

Returned == mode = "parse" /\ parse_pc = "returned"

\* C5: a non-empty, non-sentinel descriptor with 3 or more " | "-separated
\* segments is parsed to file_type = segment 1 trimmed, file_name = segment 2
\* trimmed and a file_url taken from segment 3; the example
\* "pdf | hw1.pdf | https://x/y.pdf" gives ("pdf", "hw1.pdf", "https://x/y.pdf").
C5_PipeFields ==
    (Returned /\ NotSentinel(attachment_string)
        /\ ThreeOrMoreSegments(attachment_string)) =>
        /\ parse_result.file_type = Trimmed(Segment1(attachment_string))
        /\ parse_result.file_name = Trimmed(Segment2(attachment_string))
        /\ parse_result.file_url # NoneVal
        /\ IsPartOf(parse_result.file_url, Segment3(attachment_string))
        /\ (attachment_string = EX_PIPE =>
                parse_result =
                    Triple(<<"p", "d", "f">>,
                           <<"h", "w", "1", ".", "p", "d", "f">>,
                           HTTPS \o <<"x", "/", "y", ".", "p", "d", "f">>))

C5_Witness ==
    /\ Returned
    /\ attachment_string = EX_PIPE
    /\ parse_result.file_name = <<"h", "w", "1", ".", "p", "d", "f">>

\* the URL candidate: the third segment, trimmed
Candidate(s) == Trimmed(Segment3(s))

\* C6 as stated: when the URL candidate holds a newline, file_url equals the
\* text before the candidate's first newline.
C6_Original ==
    (Returned /\ NotSentinel(attachment_string)
        /\ ThreeOrMoreSegments(attachment_string)
        /\ NewlineAt(Candidate(attachment_string)) # {}) =>
        parse_result.file_url = Line(Candidate(attachment_string), 1)

\* C6 amended: when the third segment holds a newline, file_url equals the
\* text before the first newline of the trimmed third segment, itself trimmed
\* of surrounding whitespace; it holds no newline and no text of a later line.
C6_FirstLineTrimmed ==
    (Returned /\ NotSentinel(attachment_string)
        /\ ThreeOrMoreSegments(attachment_string)
        /\ NewlineAt(Segment3(attachment_string)) # {}) =>
        /\ parse_result.file_url = Trimmed(Line(Candidate(attachment_string), 1))
        /\ NewlineAt(parse_result.file_url) = {}

C6_Witness ==
    /\ Returned
    /\ attachment_string = EX_PIPE_CRLF
    /\ parse_result.file_url = HTTPS \o <<"x", "/", "y", ".", "p", "d", "f">>

\* the lines of s that start with "https://" as they stand
UrlLines(s) == {j \in 1..NumLines(s) : HasPrefix(Line(s, j), HTTPS)}

\* the lines of s that start with "https://" once trimmed
TrimmedUrlLines(s) ==
    {j \in 1..NumLines(s) : HasPrefix(Trimmed(Line(s, j)), HTTPS)}

\* C7 as stated: with fewer than 3 segments file_type is absent, file_name is
\* the whole descriptor, and file_url is the first line that starts with
\* "https://", absent when no line starts with "https://".
C7_Original ==
    (Returned /\ NotSentinel(attachment_string)
        /\ ~ThreeOrMoreSegments(attachment_string)) =>
        /\ parse_result.file_type = NoneVal
        /\ parse_result.file_name = attachment_string
        /\ parse_result.file_url =
                IF UrlLines(attachment_string) = {} THEN NoneVal
                ELSE Line(attachment_string, Min(UrlLines(attachment_string)))

\* C7 amended: with fewer than 3 segments file_type is absent, file_name is
\* the whole descriptor, and file_url is the first line that starts with
\* "https://" after its surrounding whitespace is trimmed, returned trimmed;
\* it is absent when no trimmed line starts with "https://".
C7_FallbackTrimmedLine ==
    (Returned /\ NotSentinel(attachment_string)
        /\ ~ThreeOrMoreSegments(attachment_string)) =>
        /\ parse_result.file_type = NoneVal
        /\ parse_result.file_name = attachment_string
        /\ parse_result.file_url =
                IF TrimmedUrlLines(attachment_string) = {} THEN NoneVal
                ELSE Trimmed(Line(attachment_string,
                                  Min(TrimmedUrlLines(attachment_string))))

C7_Witness ==
    /\ Returned
    /\ attachment_string = EX_LINES
    /\ parse_result.file_type = NoneVal
    /\ parse_result.file_name = EX_LINES
    /\ parse_result.file_url = HTTPS \o <<"x", "/", "y", ".", "p", "d", "f">>

AllAbsent(r) ==
    r.file_type = NoneVal /\ r.file_name = NoneVal /\ r.file_url = NoneVal

\* C8: all three fields are absent exactly when the descriptor is empty, is
\* the no-attachment sentinel or is "-".
C8_AbsentIffSentinel ==
    Returned => (AllAbsent(parse_result) <=> ~NotSentinel(attachment_string))

C8_Witness ==
    /\ Returned
    /\ attachment_string = NO_ATTACHMENT
    /\ AllAbsent(parse_result)

----------------------------------------------------------------------------
(* The contract of download_file, read off the event log                   *)

Events(kind) == {k \in 1..Len(log) : log[k][1] = kind}

Raised(kind, a) == \E k \in 1..Len(log) : log[k] = <<kind, a>>

RECURSIVE Pow2(_)
Pow2(n) == IF n = 0 THEN 1 ELSE 2 * Pow2(n - 1)

IsSleep(e) == e[1] = "sleep"

\* the time.sleep calls of the download_file call, in order
Sleeps == SelectSeq(log, IsSleep)

\* C1: download_file makes at most max_retries GET attempts; it returns True
\* at the first attempt whose body is completely written, with no attempt
\* after it; it returns False after exactly max_retries attempts when every
\* attempt fails with a network-level error.
C1_BoundedAttempts ==
    /\ Cardinality(Events("get")) <= max_retries
    /\ \A k \in Events("done") :
            /\ k = Len(log)
            /\ dl_pc = "returned" /\ result
            /\ \A a \in 0..(log[k][2] - 1) : Raised("RequestException", a)
    /\ (dl_pc = "returned" /\ result) =>
            /\ Events("done") # {}
            /\ Exists(file_path)
            /\ fs[file_path].complete
            /\ fs[file_path].src = url
    /\ (dl_pc = "returned" /\ ~result /\ Events("Exception") = {}) =>
            /\ Cardinality(Events("get")) = max_retries
            /\ \A a \in 0..(max_retries - 1) : Raised("RequestException", a)

C1_Witness ==
    /\ dl_pc = "returned"
    /\ result
    /\ max_retries = 3
    /\ Cardinality(Events("get")) = 3
    /\ written = MaxChunks

\* C2: after attempt i fails with a network-level error and is not the last
\* allowed attempt, the next attempt starts only after a wait of 2^i; there is
\* no wait after the final attempt or after a successful one; 2 failures then
\* a success with max_retries = 3 returns True after waits of 1 then 2.
C2_Backoff ==
    /\ \A k \in Events("sleep") :
            /\ k > 1
            /\ log[k - 1][1] = "RequestException"
            /\ log[k - 1][2] < max_retries - 1
            /\ log[k][2] = Pow2(log[k - 1][2])
    /\ \A k \in Events("get") :
            log[k][2] > 0 =>
                /\ k > 1
                /\ log[k - 1] = <<"sleep", Pow2(log[k][2] - 1)>>
    /\ \A k \in Events("RequestException") :
            IF log[k][2] < max_retries - 1
            THEN IF k = Len(log) THEN dl_pc = "except_request"
                 ELSE log[k + 1][1] = "sleep"
            ELSE k = Len(log)
    /\ \A k \in Events("done") : k = Len(log)
    /\ (dl_pc = "returned" /\ result /\ max_retries = 3
            /\ Cardinality(Events("get")) = 3) =>
            Sleeps = <<<<"sleep", 1>>, <<"sleep", 2>>>>

C2_Witness ==
    /\ dl_pc = "returned"
    /\ result
    /\ max_retries = 3
    /\ Sleeps = <<<<"sleep", 1>>, <<"sleep", 2>>>>

\* C3: whenever download_file returns False, no partially written file (one
\* that holds some chunks of the body and was not completed) is left at the
\* destination path.
C3_NoPartialFile ==
    (dl_pc = "returned" /\ ~result) =>
        ~(/\ Exists(file_path)
          /\ ~fs[file_path].complete
          /\ written >= 1)

\* C4: when an attempt fails with an unrecoverable (non-network) error,
\* download_file returns False at once: no further GET attempt and no backoff
\* wait, whatever number of attempts remain.
C4_NoRetryAfterUnrecoverable ==
    \A k \in Events("Exception") :
        /\ k = Len(log)
        /\ dl_pc \in {"except_other", "returned"}
        /\ dl_pc = "returned" => ~result
        /\ Cardinality(Events("get")) = log[k][2] + 1

C4_Witness ==
    /\ dl_pc = "returned"
    /\ ~result
    /\ max_retries = 4
    /\ Raised("Exception", 1)
    /\ Sleeps = <<<<"sleep", 1>>>>

----------------------------------------------------------------------------
(* The traversal of process_json_file                                      *)

\* the round of the assignment loop holds an attachment that is not empty
\* and no sentinel, and whose parsed URL is missing or is not https
AtInvalidAttachment ==
    /\ pc = "assignment"
    /\ submitted(submitAttachments)
    /\ submitAttachments # <<>>
    /\ ~usable(extract_file_info_from_attachment(submitAttachments))

\* C9: download_file is called only for an attachment whose parsed file_url
\* is present and starts with "https://"; every other non-sentinel attachment
\* is skipped, and the skip is counted in the running statistics.
C9_SkippedIsCounted ==
    [][/\ dl_pc' # "idle" => usable(file_info')
       /\ AtInvalidAttachment =>
            /\ dl_pc' = "idle"
            /\ download_stats' # download_stats]_vars

\* the collision loop has ended: file_path is what download_file is given
PathChosen == pc = "resolve" /\ ~Exists(file_path)

\* the paths the collision loop goes through: the desired name, then
\* name_1.ext, name_2.ext, ...
Candidates(k) ==
    LET desired == desired_filename(file_info, i)
    IN  IF k = 0 THEN path_in_student_folder(desired)
        ELSE path_in_student_folder(numbered_filename(desired, k))

\* C10: the path handed to download_file does not exist when it is chosen;
\* it is the desired name when that is free, otherwise name_k.ext for the
\* smallest k >= 1 whose path is free, k tried in increasing order from 1;
\* and a numbered name handed to download_file is not chosen again for the
\* next call: with report.pdf present, the same desired name resolved twice
\* gives report_1.pdf then report_2.pdf, never report_1.pdf again.
C10_NeverReused ==
    PathChosen =>
        /\ tried = [k \in 1..Len(tried) |-> Candidates(k - 1)]
        /\ \A k \in 1..Len(tried) : Exists(tried[k])
        /\ file_path = Candidates(Len(tried))
        /\ tried # <<>> => file_path # handed

----------------------------------------------------------------------------
(* Both pipelines                                                          *)

\* the download pipeline's assignment loop holds a sentinel
AtSentinel == pc = "assignment" /\ submitAttachments \in Sentinels

\* the step in which the extraction loop takes a sentinel from the input
ReadsSentinel ==
    /\ pc = "x_assignment_loop"
    /\ i' = i + 1
    /\ submitAttachments' \in Sentinels

\* C11: an assignment whose submitAttachments is a sentinel is never counted
\* as a submission with a file: the extraction adds no record for it (so no
\* CSV row and no submission count), and the download pipeline changes no
\* counter and starts no download for it.
C11_SentinelNotCounted ==
    [][/\ ReadsSentinel =>
            UNCHANGED <<student_assignments, member_entries, csv_files,
                        processing_results, totals>>
       /\ AtSentinel =>
            /\ UNCHANGED <<download_stats, total_stats, student_files,
                           student_downloads, fs>>
            /\ dl_pc' = "idle"
            /\ pc' = "assignment_loop"]_vars

\* either pipeline has met a sentinel after it recorded or counted a file
C11_Witness ==
    /\ submitAttachments \in Sentinels
    /\ \/ /\ pc = "x_assignment_loop"
          /\ student_assignments # <<>>
       \/ /\ pc = "assignment"
          /\ fs # <<>>

\* the step of the download pipeline in which a file is given up unread
DownloadFileSkipped == pc = "read_json" /\ pc' = "main_loop"

\* the step of an extraction main in which a file is given up unread
ExtractFileSkipped == pc = "x_open" /\ pc' = "x_file_loop"

\* what a skipped file adds to the sums v4 takes over processing_results
ErrorContribution ==
    LET added == processing_results'[Len(processing_results')]
    IN  /\ Len(processing_results') = Len(processing_results) + 1
        /\ SubSeq(processing_results', 1, Len(processing_results))
                = processing_results
        /\ added.students = 0
        /\ added.submissions = 0
        /\ added.success = 0

\* C12: a JSON read or parse failure on one file is not fatal: the file is
\* skipped with an all-zero contribution to the totals and no output, the
\* loop is back at its head with the later files still to process, and the
\* run ends only when no file is left; in the download main and in the v2
\* and v4 extraction mains.
C12_ReadFailureNotFatal ==
    [][/\ DownloadFileSkipped =>
            /\ total_stats' = total_stats
            /\ fs' = fs
            /\ json_files' = Tail(json_files)
       /\ ExtractFileSkipped =>
            /\ totals' = totals
            /\ csv_files' = csv_files
            /\ json_files' = Tail(json_files)
            /\ IF version = "v4" THEN ErrorContribution
                                 ELSE processing_results' = processing_results
       /\ pc' = "done" => json_files' = <<>>]_vars

\* v4 is reading the members of a file after the file before it failed
C12_Witness ==
    /\ version = "v4"
    /\ pc = "x_assignment_loop"
    /\ processing_results # <<>>
    /\ processing_results[Len(processing_results)].status = "error"

----------------------------------------------------------------------------
(* The download pipeline's statistics                                      *)

\* an attempt sequence is counted in total_files and its outcome is not yet
InFlight == pc \in {"resolve", "download"}

\* the statistics of the file being processed balance, up to the download
\* in flight
Balanced(stats) ==
    stats.total_files = stats.successful_downloads + stats.failed_downloads
                            + IF InFlight THEN 1 ELSE 0

\* the step in which process_json_file takes download_file's return value
DownloadReturned == pc = "download" /\ pc' = "pace"

\* the step in which process_json_file returns its statistics to main
StatsReturned == pc = "member_loop" /\ pc' = "main_loop"

----------------------------------------------------------------------------
(* The information files                                                   *)

\* os.path.join(student_folder, splitext(clean_filename)[0] + "_정보.txt")
\* for the file downloaded to path
info_file(path) == <<path[1], path[2], splitext(path[3])[1] \o INFO_SUFFIX>>

\* the files of fs that a download of this run wrote whole
Downloaded ==
    {p \in DOMAIN fs : /\ fs[p].kind = "data"
                       /\ fs[p].complete
                       /\ fs[p].src # NoneVal}

\* the step in which the information file of a successful download is written
InfoWritten == pc = "download" /\ pc' = "pace" /\ result

\* C14: every successfully downloaded file has its own information file
\* that records the source URL of that download: an information file is
\* written once per successful download, at a path that held no file (so it
\* replaces neither another download's information file nor a downloaded
\* file), and it is still the record of its download afterwards.
C14_OwnInfoFile ==
    /\ [](pc # "download" =>
            \A p \in Downloaded :
                /\ Exists(info_file(p))
                /\ fs[info_file(p)] = InfoFile(fs[p].src))
    /\ [][InfoWritten =>
            /\ ~Exists(info_file(file_path))
            /\ fs' = (info_file(file_path) :> InfoFile(url)) @@ fs]_vars

----------------------------------------------------------------------------
(* The pacing delay                                                        *)

\* the attempt sequences that have come to their end, over all the files
Completed ==
    total_stats.successful_downloads + total_stats.failed_downloads
        + download_stats.successful_downloads + download_stats.failed_downloads

----------------------------------------------------------------------------
(* The extraction scripts                                                  *)

\* the step in which the extraction loop takes an assignment whose
\* submitAttachments is present and no sentinel
ReadsAttachment ==
    /\ pc = "x_assignment_loop"
    /\ i' = i + 1
    /\ submitAttachments' \notin {NoneVal} \cup Sentinels

\* the step in which the caller is given student_assignments and
\* create_csv_file writes the CSV
CsvWritten ==
    /\ pc = "x_member_loop"
    /\ pc' = "x_file_loop"
    /\ csv_files' # csv_files

\* the rows of student `name`, in the order they stand in `rows`
RECURSIVE rows_for(_, _)
rows_for(name, rows) ==
    IF rows = <<>> THEN <<>>
    ELSE IF Head(rows).student = name
         THEN <<Head(rows)>> \o rows_for(name, Tail(rows))
         ELSE rows_for(name, Tail(rows))

\* C16: the CSV of a file has exactly one data row per extracted record, one
\* record being extracted per assignment with a present, non-sentinel
\* submitAttachments; the rows are in ascending order of student name and
\* the rows of one student stand in their order in the input.
C16_RowsSortedOnePerRecord ==
    [][/\ ReadsAttachment =>
            /\ submissions_count(student_assignments')
                    = submissions_count(student_assignments) + 1
            /\ student_name \in DOMAIN student_assignments'
            /\ LET records == student_assignments'[student_name]
               IN  records[Len(records)].subject = i
       /\ CsvWritten =>
            LET rows == csv_files'[Head(json_files)]
            IN  /\ Len(rows) = submissions_count(student_assignments)
                /\ \A a, b \in 1..Len(rows) :
                        a < b => \/ str_less(rows[a].student, rows[b].student)
                                 \/ /\ rows[a].student = rows[b].student
                                    /\ rows[a].subject < rows[b].subject
                /\ \A name \in DOMAIN student_assignments :
                        rows_for(name, rows)
                            = rows_of(name, student_assignments[name])]_vars

\* the first file held two members and three assignments, two of them kim's
\* with an attachment, and its CSV has kim's two rows in their input order
C16_Witness ==
    /\ pc = "x_file_loop"
    /\ class_name(1) \in DOMAIN csv_files
    /\ LET rows == csv_files[class_name(1)]
       IN  /\ Len(rows) = 2
           /\ rows[1].student = KIM
           /\ rows[2].student = KIM
           /\ rows[1].subject = 0
           /\ rows[2].subject = 1
    /\ input_left = [members |-> MaxCsvMembers - 2,
                     assignments |-> MaxCsvAssignments - 3]

\* C17: the student count of a file, len(student_assignments), is the number
\* of member entries of statsByMember that added at least one record, also
\* when members share a displayName or have none.
C17_CountsMemberEntries ==
    pc = "x_member_loop" =>
        students_count(student_assignments) = member_entries.with_records

\* C18: every record stored in student_assignments has a present file_name:
\* an assignment whose descriptor parses to the all-absent result, the empty
\* string included, is not recorded.
C18_RecordsHaveFileName ==
    \A name \in DOMAIN student_assignments :
        \A k \in 1..Len(student_assignments[name]) :
            student_assignments[name][k].file_name # NoneVal

----------------------------------------------------------------------------
(* The four copies of extract_file_info_from_attachment                    *)

\* C19: for every descriptor the copies in download_student_files.py and
\* extract_student_assignment_v4.py return the same triple, and the older
\* copies in extract_student_assignment.py and extract_student_assignment
\* _v2.py return the file_type and the file_name of that triple; they differ
\* at most in file_url.
C19_CopiesAgree ==
    Returned =>
        /\ parse_copies.v4 = parse_result
        /\ \A old \in {"v1", "v2"} :
                /\ parse_copies[old].file_type = parse_result.file_type
                /\ parse_copies[old].file_name = parse_result.file_name

\* a descriptor of three segments with a newline in the third: the new
\* copies cut the URL at the newline, the old ones do not
C19_Witness ==
    /\ Returned
    /\ ThreeOrMoreSegments(attachment_string)
    /\ parse_result.file_name # NoneVal
    /\ parse_copies.v4.file_url = parse_result.file_url
    /\ parse_copies.v1.file_url # parse_result.file_url
    /\ parse_copies.v2.file_url # parse_result.file_url

====
